---- MODULE Spec2Model ----
(***************************************************************************)
(* Model of the ASL letter-recognition backend (backend/app): the          *)
(* predict_sign request handler of views.py, the URL table of urls.py and  *)
(* the client of test_backend.py that composes and posts requests.         *)
(*                                                                         *)
(* Python values are records [t, s, n]: t the type tag, s the characters   *)
(* of a str, n the value of an int/bool or the size of a list/dict.        *)
(* Strings are sequences of one-character strings.  Probabilities are      *)
(* integers 0..MaxProb.                                                    *)
(***************************************************************************)
EXTENDS Integers, Sequences, FiniteSets, TLC

VARIABLES model, phase, handler, request, response, prediction,
          payload, bodyRead, invocations, everPredicted

vars == <<model, phase, handler, request, response, prediction,
          payload, bodyRead, invocations, everPredicted>>

(***************************************************************************)
(* Bounds of the model.                                                    *)
(***************************************************************************)
\* most comma-separated segments a client puts in one image string
MaxSegs == 3
\* size of the output layer of the loaded model (class indices 0..NumClasses-1)
NumClasses == 28
\* largest entry of a probability vector
MaxProb == 1

(***************************************************************************)
(* Python values.                                                          *)
(***************************************************************************)
PyNone == [t |-> "None", s |-> <<>>, n |-> 0]
PyAbsent == [t |-> "absent", s |-> <<>>, n |-> 0]
PyStr(s) == [t |-> "str", s |-> s, n |-> 0]
PyInt(n) == [t |-> "int", s |-> <<>>, n |-> n]
PyBool(b) == [t |-> "bool", s |-> <<>>, n |-> IF b THEN 1 ELSE 0]
PyList(n) == [t |-> "list", s |-> <<>>, n |-> n]
PyDict(n) == [t |-> "dict", s |-> <<>>, n |-> n]

\* Python truthiness, as used by `if not image_data`
Truthy(v) ==
    CASE v.t = "None" -> FALSE
      [] v.t = "absent" -> FALSE
      [] v.t = "str" -> Len(v.s) > 0
      [] OTHER -> v.n # 0

\* c in s, for a str s
Contains(s, c) == \E i \in 1..Len(s) : s[i] = c

\* index of the first c in s (s contains c)
IndexOf(s, c) == CHOOSE i \in 1..Len(s) : s[i] = c /\ \A j \in 1..(i - 1) : s[j] # c

\* s.split(c): the list of the segments of s between the occurrences of c
RECURSIVE Split(_, _)
Split(s, c) ==
    IF ~Contains(s, c) THEN <<s>>
    ELSE LET i == IndexOf(s, c)
         IN  <<SubSeq(s, 1, i - 1)>> \o Split(SubSeq(s, i + 1, Len(s)), c)

(***************************************************************************)
(* base64.b64decode, non-validating (binascii.a2b_base64, strict_mode off) *)
(***************************************************************************)
B64Alphabet == {"A", "B", "d", "+"}

B64Val(c) ==
    CASE c = "A" -> 0
      [] c = "B" -> 1
      [] c = "d" -> 29
      [] c = "+" -> 62

\* one pass over the characters from position i: quad_pos is the position in
\* the current group of four, pads the number of '=' seen since the last data
\* character, leftchar the bits carried over, out the bytes produced
RECURSIVE A2b(_, _, _, _, _, _)
A2b(s, i, quad_pos, pads, leftchar, out) ==
    IF i > Len(s) THEN [ok |-> quad_pos = 0, bytes |-> out]
    ELSE IF s[i] = "=" THEN
            IF quad_pos >= 2 /\ quad_pos + pads + 1 >= 4
            THEN [ok |-> TRUE, bytes |-> out]
            ELSE A2b(s, i + 1, quad_pos, IF quad_pos >= 2 THEN pads + 1 ELSE pads,
                     leftchar, out)
    ELSE IF s[i] \notin B64Alphabet THEN A2b(s, i + 1, quad_pos, pads, leftchar, out)
    ELSE LET v == B64Val(s[i])
         IN  CASE quad_pos = 0 -> A2b(s, i + 1, 1, 0, v, out)
               [] quad_pos = 1 ->
                    A2b(s, i + 1, 2, 0, v % 16, Append(out, leftchar * 4 + (v \div 16)))
               [] quad_pos = 2 ->
                    A2b(s, i + 1, 3, 0, v % 4, Append(out, leftchar * 16 + (v \div 4)))
               [] quad_pos = 3 ->
                    A2b(s, i + 1, 0, 0, 0, Append(out, leftchar * 64 + v))

b64decode(s) == A2b(s, 1, 0, 0, 0, <<>>)

(***************************************************************************)
(* PIL: Image.open identifies a byte string as an image by its header.     *)
(***************************************************************************)
ImageMagic == {4}

ImageOpen(bytes) ==
    IF Len(bytes) >= 3 /\ bytes[1] \in ImageMagic
    THEN [ok |-> TRUE, mode |-> IF bytes[3] % 2 = 0 THEN "RGB" ELSE "L"]
    ELSE [ok |-> FALSE, mode |-> ""]

\* shape of np.array(image.convert('RGB').resize((64, 64)))
image_array_shape == <<64, 64, 3>>

(***************************************************************************)
(* The model object: None when load_model failed at import.                *)
(***************************************************************************)
InputShapes == {<<64, 64, 3>>, <<224, 224, 3>>}

ModelNone == [loaded |-> FALSE, input_shape |-> <<>>]

Models == {ModelNone} \cup {[loaded |-> TRUE, input_shape |-> sh] : sh \in InputShapes}

\* what model.predict may do: raise, or return a probability vector
HotClasses == {0, 25, 26, NumClasses - 1}

Vec(p, a, q, b) ==
    [i \in 0..(NumClasses - 1) |-> IF i = p THEN a ELSE IF i = q THEN b ELSE 0]

NoVec == [i \in 0..(NumClasses - 1) |-> 0]

PredictOutcomes ==
    {[raises |-> TRUE, vec |-> NoVec]} \cup
    {[raises |-> FALSE, vec |-> Vec(p, a, q, b)] :
        p \in HotClasses, a \in 1..MaxProb, q \in HotClasses, b \in 0..MaxProb}

NoPrediction == [raises |-> FALSE, vec |-> NoVec]

VecMax(vec) == CHOOSE m \in 0..MaxProb : (\E i \in DOMAIN vec : vec[i] = m)
                                         /\ \A i \in DOMAIN vec : vec[i] <= m

\* np.argmax: the first index of the largest entry
ArgMax(vec) == CHOOSE i \in DOMAIN vec : vec[i] = VecMax(vec)
                                         /\ \A j \in DOMAIN vec : j < i => vec[j] < VecMax(vec)

asl_letters == <<"A", "B", "C", "D", "E", "F", "G", "H", "I", "J", "K", "L", "M",
                 "N", "O", "P", "Q", "R", "S", "T", "U", "V", "W", "X", "Y", "Z">>

(***************************************************************************)
(* Responses.  error is <<fixed message, text of the exception>>.          *)
(***************************************************************************)
NoLetters == <<>>

NoResponse == [kind |-> "none", status |-> 0, keys |-> {}, success |-> FALSE,
               error |-> <<"", "">>, letter |-> "", confidence |-> -1,
               letters |-> NoLetters]

\* JsonResponse({'success': False, 'error': ...}, status=status)
ErrorResponse(status, message, text) ==
    [kind |-> "json", status |-> status, keys |-> {"success", "error"},
     success |-> FALSE, error |-> <<message, text>>, letter |-> "",
     confidence |-> -1, letters |-> NoLetters]

\* JsonResponse({'letter': ..., 'confidence': ..., 'success': True})
SuccessResponse(predicted_letter, confidence) ==
    [kind |-> "json", status |-> 200, keys |-> {"letter", "confidence", "success"},
     success |-> TRUE, error |-> <<"", "">>, letter |-> predicted_letter,
     confidence |-> confidence, letters |-> NoLetters]

\* an exception that left the view: the framework's own error page
FaultResponse(exc) ==
    [kind |-> "fault", status |-> 500, keys |-> {}, success |-> FALSE,
     error |-> <<"", exc>>, letter |-> "", confidence |-> -1, letters |-> NoLetters]

(***************************************************************************)
(* Results of a block of the handler: it returns a response or raises, and *)
(* records the string it handed to b64decode and its calls of predict.     *)
(***************************************************************************)
NoPayload == [reached |-> FALSE, s |-> <<>>]
Payload(s) == [reached |-> TRUE, s |-> s]

Return(resp, pl, inv) ==
    [kind |-> "return", resp |-> resp, exc |-> "", payload |-> pl, invocations |-> inv]

Raise(exc, pl, inv) ==
    [kind |-> "raise", resp |-> NoResponse, exc |-> exc, payload |-> pl,
     invocations |-> inv]

(***************************************************************************)
(* Requests.  The body is described by its encoding on the wire, the type  *)
(* of the top-level JSON value and the value of its image field.           *)
(***************************************************************************)
Methods == {"POST", "GET"}

ContentTypes == {"multipart/form-data", "application/json",
                 "application/x-www-form-urlencoded"}

Encodings == {"empty", "badutf8", "text", "badboundary", "json", "urlencoded",
              "multipart"}

JsonTops == {"object", "array", "string", "number", "null"}

\* the comma-free pieces a client builds image strings from
Segments == {<<>>, <<"d", ":">>, <<"B", "A", "A", "A">>, <<"B", "A", "+", "A">>,
             <<"A", "A", "=", "=">>}

\* values of the image field that are not strings (JSON only)
OtherValues == {PyNone, PyInt(0), PyInt(123), PyBool(TRUE), PyList(1), PyDict(1)}

\* urllib.parse.parse_qs unquotes a value: '+' stands for a space
Unquote(s) == [i \in 1..Len(s) |-> IF s[i] = "+" THEN " " ELSE s[i]]

\* content_type.startswith('multipart/form-data')
IsMultipart(content_type) == content_type = "multipart/form-data"

(***************************************************************************)
(* predict_sign, lines 33-57: the image data of the request, by content    *)
(* type.  kind "value" carries image_data on to line 59.                   *)
(***************************************************************************)
Value(v) == [kind |-> "value", v |-> v, resp |-> NoResponse, exc |-> ""]
ParseReturn(resp) == [kind |-> "return", v |-> PyNone, resp |-> resp, exc |-> ""]
ParseRaise(exc) == [kind |-> "raise", v |-> PyNone, resp |-> NoResponse, exc |-> exc]

\* request.POST.get('image')
FormBranch(req) ==
    IF req.enc = "badboundary" THEN ParseRaise("MultiPartParserError")
    ELSE LET image_data == IF req.enc = "multipart" /\ req.image.t = "str"
                           THEN req.image ELSE PyNone
         IN  IF ~Truthy(image_data)
             THEN ParseReturn(ErrorResponse(400, "No image data in form", ""))
             ELSE Value(image_data)

\* json.loads(request.body), then data.get('image')
JsonBranch(req) ==
    IF req.enc = "badutf8" THEN ParseRaise("UnicodeDecodeError")
    ELSE IF req.enc # "json" THEN ParseReturn(ErrorResponse(400, "Invalid JSON", ""))
    ELSE IF req.top # "object" THEN ParseRaise("AttributeError")
    ELSE IF req.image.t = "absent" THEN Value(PyNone)
    ELSE Value(req.image)

\* request.body.decode('utf-8'), then parse_qs(body).get('image', [''])[0]
FallbackBranch(req) ==
    IF req.enc = "badutf8" THEN ParseRaise("UnicodeDecodeError")
    ELSE IF req.enc = "empty"
    THEN ParseReturn(ErrorResponse(400, "Empty request body", ""))
    ELSE IF req.enc = "urlencoded" /\ req.image.t = "str"
    THEN Value(PyStr(Unquote(req.image.s)))
    ELSE Value(PyStr(<<>>))

ParseRequest(req) ==
    IF IsMultipart(req.content_type) THEN FormBranch(req)
    ELSE IF req.content_type = "application/json" THEN JsonBranch(req)
    ELSE FallbackBranch(req)

(***************************************************************************)
(* predict_sign, lines 59-124.                                             *)
(***************************************************************************)
\* lines 63-64: image_data.split(',')[1] when ',' in image_data
StripPrefix(s) == IF Contains(s, ",") THEN Split(s, ",")[2] ELSE s

\* the range check with its comparison off by one
ClassOutOfRangeStrict(predicted_class) == predicted_class > Len(asl_letters)

\* line 96: predicted_class >= len(asl_letters)
ClassOutOfRange(predicted_class) == predicted_class >= Len(asl_letters)

\* line 102: asl_letters[predicted_class], zero-based
LetterAt(predicted_class) == asl_letters[predicted_class + 1]

\* lines 89-110: predict, arg-max, the range check and the 200 response
Predict(o, pl) ==
    IF o.raises THEN Raise("PredictError", pl, 1)
    ELSE LET predicted_class == ArgMax(o.vec)
             confidence == VecMax(o.vec)
         IN  IF ClassOutOfRange(predicted_class)
             THEN Return(ErrorResponse(500, "Invalid class index", ""), pl, 1)
             ELSE IF predicted_class >= Len(asl_letters)
             THEN Raise("IndexError", pl, 1)
             ELSE Return(SuccessResponse(LetterAt(predicted_class), confidence), pl, 1)

\* lines 66-110: the body of the inner try
ProcessImage(m, image_data, o) ==
    IF image_data.t # "str" THEN Raise("TypeError", NoPayload, 0)
    ELSE LET pl == Payload(image_data.s)
             image_bytes == b64decode(image_data.s)
         IN  IF ~image_bytes.ok THEN Raise("binascii.Error", pl, 0)
             ELSE IF ~ImageOpen(image_bytes.bytes).ok
             THEN Raise("UnidentifiedImageError", pl, 0)
             ELSE IF ~m.loaded THEN Raise("AttributeError", pl, 0)
             ELSE IF image_array_shape # m.input_shape
             THEN Return(ErrorResponse(400, "Invalid image dimensions", ""), pl, 0)
             ELSE Predict(o, pl)

\* lines 112-117: except Exception of the inner try
InnerExcept(r) ==
    IF r.kind = "raise"
    THEN Return(ErrorResponse(400, "Image processing error: ", r.exc),
                r.payload, r.invocations)
    ELSE r

\* the outer handler catching ValueError only
OuterExceptValueError(r) ==
    IF r.kind = "raise" /\ r.exc = "UnicodeDecodeError"
    THEN Return(ErrorResponse(500, "Server error: ", r.exc), r.payload, r.invocations)
    ELSE r

\* lines 119-124: except Exception of the outer try
OuterExcept(r) ==
    IF r.kind = "raise"
    THEN Return(ErrorResponse(500, "Server error: ", r.exc), r.payload, r.invocations)
    ELSE r

\* lines 32-117: the body of the outer try
TryBody(m, req, o) ==
    LET p == ParseRequest(req)
    IN  IF p.kind = "return" THEN Return(p.resp, NoPayload, 0)
        ELSE IF p.kind = "raise" THEN Raise(p.exc, NoPayload, 0)
        ELSE IF ~Truthy(p.v)
        THEN Return(ErrorResponse(400, "No image data provided", ""), NoPayload, 0)
        ELSE IF p.v.t \in {"int", "bool"} THEN Raise("TypeError", NoPayload, 0)
        ELSE LET image_data == IF p.v.t = "str" THEN PyStr(StripPrefix(p.v.s)) ELSE p.v
             IN  InnerExcept(ProcessImage(m, image_data, o))

\* the method check letting GET through as well
MethodNotAllowedButGet(method) == method \notin {"POST", "GET"}

\* line 25
MethodNotAllowed(method) == method # "POST"

\* the handler without its check of the model
ModelNeverNone(m) == FALSE

\* line 28
ModelIsNone(m) == ~m.loaded

\* the whole view
predict_sign(m, req, o) ==
    IF MethodNotAllowed(req.method)
    THEN Return(ErrorResponse(405, "Only POST requests allowed", ""), NoPayload, 0)
    ELSE IF ModelIsNone(m)
    THEN Return(ErrorResponse(500, "Model not loaded", ""), NoPayload, 0)
    ELSE OuterExcept(TryBody(m, req, o))

\* the request body is read from line 37, 44 or 51 on
ReadsBody(m, req) == ~MethodNotAllowed(req.method) /\ ~ModelIsNone(m)

\* what the client receives: the response returned, or the error page of an
\* exception that left the view
Delivered(r) == IF r.kind = "raise" THEN FaultResponse(r.exc) ELSE r.resp

(***************************************************************************)
(* urls.py: the URL table imports its views from views.py.                 *)
(***************************************************************************)
\* the names views.py defines
ViewsNames == {"predict_sign", "model", "logger", "MODEL_PATH"}

\* from .views import ASLPredictionView, ASLLettersView
UrlsImports == {"ASLPredictionView", "ASLLettersView"}

UrlconfLoads == UrlsImports \subseteq ViewsNames

\* the reference list of the letters endpoint
ASLLetters ==
    [i \in 1..Len(asl_letters) |-> [letter |-> asl_letters[i], index |-> i - 1]]

LettersResponse ==
    IF UrlconfLoads
    THEN [kind |-> "json", status |-> 200, keys |-> {"letters"}, success |-> FALSE,
          error |-> <<"", "">>, letter |-> "", confidence |-> -1,
          letters |-> ASLLetters]
    ELSE FaultResponse("ImportError")

(***************************************************************************)
(* State machine.  A client composes a request (compose), a view answers   *)
(* it (done), and the client starts over.                                  *)
(***************************************************************************)
\* test_backend.py: payload = {"image": ...}, posted as application/json
NewRequest == [method |-> "POST", content_type |-> "application/json",
               enc |-> "json", top |-> "object", image |-> PyAbsent]

Init ==
    /\ model \in Models
    /\ phase = "compose"
    /\ handler = "none"
    /\ request = NewRequest
    /\ response = NoResponse
    /\ prediction = NoPrediction
    /\ payload = NoPayload
    /\ bodyRead = FALSE
    /\ invocations = 0
    /\ everPredicted = FALSE

Composing(req) ==
    /\ phase = "compose"
    /\ request' = req
    /\ UNCHANGED <<model, phase, handler, response, prediction, payload, bodyRead,
                   invocations, everPredicted>>

SetMethod(method) == Composing([request EXCEPT !.method = method])

SetContentType(ct) == Composing([request EXCEPT !.content_type = ct])

SetBody(enc, top) ==
    Composing([request EXCEPT !.enc = enc,
                              !.top = IF enc = "json" THEN top ELSE "none",
                              !.image = PyAbsent])

HasImageField(req) ==
    \/ req.enc = "json" /\ req.top = "object"
    \/ req.enc \in {"urlencoded", "multipart"}

SetImage(v) ==
    /\ HasImageField(request)
    /\ v.t = "str" \/ request.enc = "json"
    /\ Composing([request EXCEPT !.image = v])

AppendSegment(seg) ==
    /\ request.image.t = "str"
    /\ Len(Split(request.image.s, ",")) < MaxSegs
    /\ Composing([request EXCEPT !.image = PyStr(request.image.s \o <<",">> \o seg)])

PredictSign ==
    /\ phase = "compose"
    /\ \E o \in PredictOutcomes :
          LET r == predict_sign(model, request, o)
          IN  /\ response' = Delivered(r)
              /\ prediction' = IF r.invocations > 0 THEN o ELSE NoPrediction
              /\ payload' = r.payload
              /\ invocations' = r.invocations
              /\ everPredicted' = (everPredicted \/ r.invocations > 0)
    /\ bodyRead' = ReadsBody(model, request)
    /\ phase' = "done"
    /\ handler' = "predict_sign"
    /\ UNCHANGED <<model, request>>

Letters ==
    /\ phase = "compose"
    /\ request.method = "GET"
    /\ response' = LettersResponse
    /\ phase' = "done"
    /\ handler' = "letters"
    /\ prediction' = NoPrediction
    /\ payload' = NoPayload
    /\ bodyRead' = FALSE
    /\ invocations' = 0
    /\ UNCHANGED <<model, request, everPredicted>>

NextRequest ==
    /\ phase = "done"
    /\ phase' = "compose"
    /\ handler' = "none"
    /\ request' = NewRequest
    /\ response' = NoResponse
    /\ prediction' = NoPrediction
    /\ payload' = NoPayload
    /\ bodyRead' = FALSE
    /\ invocations' = 0
    /\ UNCHANGED <<model, everPredicted>>

Next ==
    \/ \E method \in Methods : SetMethod(method)
    \/ \E ct \in ContentTypes : SetContentType(ct)
    \/ \E enc \in Encodings, top \in JsonTops : SetBody(enc, top)
    \/ \E v \in OtherValues \cup {PyStr(seg) : seg \in Segments} : SetImage(v)
    \/ \E seg \in Segments : AppendSegment(seg)
    \/ PredictSign
    \/ Letters
    \/ NextRequest

Spec == Init /\ [][Next]_vars

(***************************************************************************)
(* Properties.                                                             *)
(***************************************************************************)
Answered == phase = "done" /\ handler = "predict_sign"

\* image_data as the handler obtained it from the request
ImageData == ParseRequest(request)

HasImageString ==
    /\ ImageData.kind = "value"
    /\ ImageData.v.t = "str"
    /\ Len(ImageData.v.s) > 0

\* the part of s after its first comma
AfterFirstComma(s) == SubSeq(s, IndexOf(s, ",") + 1, Len(s))

\* the payload of an image string: what follows the prefix up to the first comma
PayloadOf(s) == IF Contains(s, ",") THEN AfterFirstComma(s) ELSE s

\* s base64-decodes to bytes that open as an image
DecodesToImage(s) == b64decode(s).ok /\ ImageOpen(b64decode(s).bytes).ok

\* the indices of the largest entries of a vector
ArgMaxSet(vec) == {i \in DOMAIN vec : \A j \in DOMAIN vec : vec[j] <= vec[i]}

\* C1: with the model not loaded (None), every POST handled by predict_sign is
\* answered 500 with the one message "Model not loaded", whatever the request
\* and whatever was served before, and model.predict is never invoked.
C1_ModelUnavailable ==
    ~model.loaded =>
        /\ ~everPredicted
        /\ Answered /\ request.method = "POST" =>
              /\ response = ErrorResponse(500, "Model not loaded", "")
              /\ invocations = 0

C1_Witness ==
    /\ Answered /\ ~model.loaded /\ request.method = "POST"
    /\ request.content_type = "application/json"
    /\ request.enc = "json" /\ request.top = "object"
    /\ request.image = PyStr(<<"B", "A", "A", "A">>)
    /\ response.status = 500

\* the requests of C2: no usable image data under the convention of the
\* content type (key missing, value empty, empty body, JSON malformed or not
\* yielding an image string)
NoUsableImage(req) ==
    IF IsMultipart(req.content_type)
    THEN \/ req.enc = "empty"
         \/ req.enc = "multipart" /\ (req.image.t = "absent" \/ req.image = PyStr(<<>>))
    ELSE IF req.content_type = "application/json"
    THEN \/ req.enc \in {"empty", "text"}
         \/ req.enc = "json" /\ (req.top # "object" \/ req.image.t # "str"
                                 \/ req.image = PyStr(<<>>))
    ELSE \/ req.enc = "empty"
         \/ req.enc = "urlencoded" /\ (req.image.t = "absent" \/ req.image = PyStr(<<>>))

\* C2: with the model loaded, every POST that supplies no usable image data is
\* answered 400 with an error message, never 500, under each body convention.
C2_NoImageIs400 ==
    Answered /\ model.loaded /\ request.method = "POST" /\ NoUsableImage(request) =>
        /\ response.kind = "json"
        /\ response.status = 400
        /\ "error" \in response.keys

\* C3: a failure that is no input, decode or shape error (model.predict raising
\* on a decoded, well-shaped image) is answered 500 with the exception text.
C3_UnexpectedIs500 ==
    Answered /\ invocations = 1 /\ prediction.raises =>
        /\ response.status = 500
        /\ response.error[2] = "PredictError"

\* C4: every 200 response carries the letter under the key predicted_letter,
\* together with a confidence.
C4_PredictedLetterKey ==
    Answered /\ response.status = 200 =>
        {"predicted_letter", "confidence"} \subseteq response.keys

\* C5: GET letters/ always answers 200 with exactly 26 entries, entry i with
\* index i and letter 'A'+i, whatever the model state; the view the URL table
\* routes to exists.
C5_LettersEndpoint ==
    phase = "done" /\ handler = "letters" =>
        /\ UrlconfLoads
        /\ response.status = 200
        /\ Len(response.letters) = 26
        /\ \A i \in 1..Len(response.letters) :
              /\ response.letters[i].index = i - 1
              /\ response.letters[i].letter = asl_letters[i]

\* C6: what is base64-decoded is the whole remainder after the first comma of
\* the image string when it has a comma, and the whole string otherwise: the
\* bytes decoded are those of that remainder.
C6_PayloadIsRemainder ==
    Answered /\ payload.reached /\ HasImageString =>
        b64decode(payload.s) = b64decode(PayloadOf(ImageData.v.s))

\* C7: a 200 response returns the letter at offset i from 'A' for an arg-max
\* index i in [0,26) of the probability vector and the largest entry as the
\* confidence; when every arg-max index is 26 or more the answer is 500.
C7_LetterAndConfidence ==
    Answered =>
        /\ response.status = 200 =>
              /\ invocations = 1 /\ ~prediction.raises
              /\ \E i \in ArgMaxSet(prediction.vec) :
                    /\ i < 26
                    /\ response.letter = asl_letters[i + 1]
                    /\ response.confidence = prediction.vec[i]
        /\ (/\ invocations = 1 /\ ~prediction.raises
            /\ \A i \in ArgMaxSet(prediction.vec) : i >= 26) =>
              response.status = 500

C7_Witness ==
    /\ Answered /\ response.status = 200
    /\ response.letter = "Z"
    /\ ArgMax(prediction.vec) = 25
    /\ prediction.vec[NumClasses - 1] > 0

\* C8: with the model loaded, every POST whose non-empty image string is not
\* valid base64 or does not decode to a readable image is answered 400 with a
\* structured error, never 500 or 200, and inference is not invoked.
C8_UndecodableIs400 ==
    (/\ Answered /\ model.loaded /\ request.method = "POST"
     /\ HasImageString
     /\ ~DecodesToImage(PayloadOf(ImageData.v.s))) =>
        /\ response.kind = "json"
        /\ response.status = 400
        /\ "error" \in response.keys
        /\ invocations = 0

\* C9: every request to predict_sign with a method other than POST is answered
\* 405, model loaded or not, without reading the body or invoking inference.
C9_MethodNotAllowed ==
    Answered /\ request.method # "POST" =>
        /\ response = ErrorResponse(405, "Only POST requests allowed", "")
        /\ ~bodyRead
        /\ invocations = 0

C9_Witness ==
    /\ Answered /\ request.method = "GET" /\ ~model.loaded
    /\ request.image = PyStr(<<"B", "A", "A", "A">>)
    /\ response.status = 405

StructuredResponse ==
    Answered =>
        /\ response.kind = "json"
        /\ response.status \in {200, 400, 405, 500}
        /\ "success" \in response.keys
        /\ response.success <=> response.status = 200
        /\ response.status # 200 =>
              /\ "error" \in response.keys
              /\ response.error[1] # ""
        /\ invocations <= 1

\* C10: every request handled by predict_sign ends in one structured JSON
\* response with status 200, 400, 405 or 500, no exception leaves the handler,
\* success is true exactly for 200, every other response has an error message,
\* predict runs at most once per request and the model is never changed.
C10_ErrorBoundary == []StructuredResponse /\ [][model' = model]_vars

C10_Witness ==
    /\ Answered /\ model.loaded
    /\ request.content_type = "application/json" /\ request.enc = "json"
    /\ request.top = "array"
    /\ response.status = 500
    /\ response.error = <<"Server error: ", "AttributeError">>

====
